---- MODULE Spec2Model ----
(***************************************************************************)
(* scripts/update_photoshop_template_path.py: resolve the template asset   *)
(* and rewrite the `var templateFile = new File('...');` line of the JSX   *)
(* file.                                                                   *)
(*                                                                         *)
(* A run starts after argparse has produced the namespace: its inputs are  *)
(* args.template (cli_value), args.jsx, the platform's path flavour and    *)
(* the file system.  Files that exist are readable and writable.           *)
(*                                                                         *)
(* Text is a sequence of symbols.  A symbol is one character, except HEAD, *)
(* which stands for the 28 characters of the pattern's literal prefix, and *)
(* the path components (file and directory names without separators or     *)
(* special characters), which stand for their characters.                  *)
(***************************************************************************)
EXTENDS Integers, Sequences, FiniteSets, TLC

\* ---- bounds ----
MaxItems == 3        \* items (chunks of text) in the initial JSX file
MaxDirPieces == 1    \* pieces in the name of the directory holding the files
MaxRuns == 2         \* consecutive runs with the same arguments

\* ---- symbols ----
HEAD == "var templateFile = new File('"
LF == "LF"           \* \n
CR == "CR"           \* \r
BSL == "BSL"         \* backslash
TERM == <<"'", ")", ";">>
JSX == "hex-spirit-game-print.jsx"
PSD == "spirit_hex_grey.psd"

NoMatch == <<0, 0>>
NoExc == [type |-> "", msg |-> <<>>]

\* ---- re: REPLACEMENT_PATTERN ----

\* .*?'\); tried from position j: '.' is any character but \n, lazily
\* extended until the terminator follows.  Index of the last character of
\* the match, 0 when there is none.
RECURSIVE LazyEnd(_, _)
LazyEnd(text, j) ==
    IF j + 2 > Len(text) THEN 0
    ELSE IF SubSeq(text, j, j + 2) = TERM THEN j + 2
    ELSE IF text[j] = LF THEN 0
    ELSE LazyEnd(text, j + 1)

\* the pattern anchored at position i
MatchAt(text, i) ==
    IF text[i] = HEAD THEN LazyEnd(text, i + 1) ELSE 0

\* REPLACEMENT_PATTERN.search(text) scanning from position i: <<start, end>>
\* of the leftmost match, NoMatch when there is none
RECURSIVE SearchFrom(_, _)
SearchFrom(text, i) ==
    IF i > Len(text) THEN NoMatch
    ELSE IF MatchAt(text, i) # 0 THEN <<i, MatchAt(text, i)>>
    ELSE SearchFrom(text, i + 1)

Search(text) == SearchFrom(text, 1)

\* number of non-overlapping matches, as finditer would enumerate them
RECURSIVE CountFrom(_, _)
CountFrom(text, i) ==
    LET m == SearchFrom(text, i)
    IN  IF m = NoMatch THEN 0 ELSE 1 + CountFrom(text, m[2] + 1)

CountMatches(text) == CountFrom(text, 1)

\* the replacement string parsed as a template (re.sub on a str repl):
\* a backslash starts an escape.  \n is a newline, \a a bell, \\ a
\* backslash, \1 a reference to a group the pattern does not have, \d, \o
\* and \p unknown letter escapes; a backslash before a non-alphanumeric
\* character stays as it is.
RECURSIVE ExpandTemplate(_)
ExpandTemplate(r) ==
    IF r = <<>> THEN [err |-> <<>>, out |-> <<>>]
    ELSE IF Head(r) # BSL THEN
        LET rest == ExpandTemplate(Tail(r))
        IN  [err |-> rest.err, out |-> <<Head(r)>> \o rest.out]
    ELSE IF Len(r) = 1 THEN [err |-> <<"bad escape (end of pattern)">>, out |-> <<>>]
    ELSE
        LET c == r[2]
            rest == ExpandTemplate(SubSeq(r, 3, Len(r)))
        IN  CASE c = "n" -> [err |-> rest.err, out |-> <<LF>> \o rest.out]
              [] c = BSL -> [err |-> rest.err, out |-> <<BSL>> \o rest.out]
              [] c = "1" -> [err |-> <<"invalid group reference 1">>, out |-> <<>>]
              [] c = "a" -> [err |-> rest.err, out |-> <<"BEL">> \o rest.out]
              [] c \in {"d", "o", "p"} -> [err |-> <<"bad escape ", BSL, c>>, out |-> <<>>]
              [] OTHER   -> [err |-> rest.err, out |-> <<BSL, c>> \o rest.out]

\* REPLACEMENT_PATTERN.sub(repl, text, count=1) for a template that parses
Sub(repl, text) ==
    LET m == Search(text)
    IN  IF m = NoMatch THEN text
        ELSE SubSeq(text, 1, m[1] - 1) \o ExpandTemplate(repl).out
                 \o SubSeq(text, m[2] + 1, Len(text))

\* ---- pathlib ----

\* PurePath.as_posix: the native separator becomes a forward slash
RECURSIVE as_posix(_, _)
as_posix(p, flav) ==
    IF p = <<>> THEN <<>>
    ELSE (IF flav = "windows" /\ Head(p) = BSL THEN <<"/">> ELSE <<Head(p)>>)
             \o as_posix(Tail(p), flav)

\* Path.expanduser: a leading ~ component becomes the home directory
expanduser(p) ==
    IF p # <<>> /\ Head(p) = "~" THEN <<"home">> \o Tail(p) ELSE p

\* ---- text-mode file io ----

\* read_text: universal newlines, \r\n and \r are read as \n
RECURSIVE read_text(_)
read_text(bytes) ==
    IF bytes = <<>> THEN <<>>
    ELSE IF Head(bytes) = CR THEN
        IF Len(bytes) > 1 /\ bytes[2] = LF
        THEN <<LF>> \o read_text(SubSeq(bytes, 3, Len(bytes)))
        ELSE <<LF>> \o read_text(Tail(bytes))
    ELSE <<Head(bytes)>> \o read_text(Tail(bytes))

\* write_text: \n is written as os.linesep
RECURSIVE write_text(_, _)
write_text(data, flav) ==
    IF data = <<>> THEN <<>>
    ELSE (IF Head(data) = LF /\ flav = "windows" THEN <<CR, LF>> ELSE <<Head(data)>>)
             \o write_text(Tail(data), flav)

\* ---- the file system seen by pathlib ----

Flavours == {"posix", "windows"}
Sep(flav) == IF flav = "windows" THEN BSL ELSE "/"
Root(flav) == IF flav = "windows" THEN <<"C:", BSL>> ELSE <<"/">>

Cwd == <<"cwd">>            \* Path.cwd()
RepoRoot == <<"repo">>      \* Path(__file__).resolve().parents[1]

\* a relative path is taken from the current working directory
Absolute(p) ==
    IF p # <<>> /\ Head(p) \in {"cwd", "repo", "home"} THEN p ELSE Cwd \o p

RECURSIVE Join(_, _)
Join(p, sep) ==
    IF p = <<>> THEN <<>> ELSE <<sep, Head(p)>> \o Join(Tail(p), sep)

\* Path.resolve(): the absolute path, below the directory `base` that holds
\* the working directory, the checkout and the home directory
Resolve(p, flav, base) == Root(flav) \o base \o Join(Absolute(p), Sep(flav))

\* ---- resolve_template_path ----

\* `if cli_value:` is false for None (<<>>) and for the empty string (<< <<>> >>)
Supplied(cli) == cli # <<>> /\ cli[1] # <<>>

Candidates_Fallthrough(cli, repo_root) ==
    (IF Supplied(cli) THEN <<expanduser(cli[1])>> ELSE <<>>)
        \o <<Cwd \o <<PSD>>, repo_root \o <<PSD>>>>

Candidates_CwdFirst(cli, repo_root) ==
    <<Cwd \o <<PSD>>, repo_root \o <<PSD>>>>
        \o (IF Supplied(cli) THEN <<expanduser(cli[1])>> ELSE <<>>)

Candidates(cli, repo_root) ==
    IF Supplied(cli) THEN <<expanduser(cli[1])>>
    ELSE <<Cwd \o <<PSD>>, repo_root \o <<PSD>>>>

FirstFile_NoCheck(cands, fs) == 1

\* the loop over the candidates: index of the first one that is a regular
\* file, 0 when the loop falls through
FirstFile(cands, fs) ==
    IF \E i \in 1..Len(cands) : cands[i] \in fs
    THEN CHOOSE i \in 1..Len(cands) :
             cands[i] \in fs /\ \A j \in 1..(i - 1) : cands[j] \notin fs
    ELSE 0

NotFoundMsg_NoName == <<"Unable to locate template. Pass --template /full/path/to/file.psd">>

NotFoundMsg ==
    <<"Unable to locate ", PSD, ". Pass --template /full/path/to/file.psd">>

\* ---- main ----

JsxMissing_NoCheck(kind) == FALSE

\* `not jsx_path.is_file()`
JsxMissing(kind) == kind # "file"

PatternFound_Always(t) == TRUE

\* REPLACEMENT_PATTERN.search(text) is truthy
PatternFound(t) == Search(t) # NoMatch

replacement_line(path, flav) == <<HEAD>> \o as_posix(path, flav) \o TERM

ErrorExit_Two == 1 + 1

ErrorExit == 1

VARIABLES
    flavour,        \* path flavour of the platform
    base,           \* name of the directory everything lives under
    cli_value,      \* args.template: <<>> for None, <<p>> for a string
    files,          \* the paths that are regular files
    jsx_kind,       \* what is at args.jsx: "file", "dir" or "missing"
    jsx_bytes,      \* the content of the file at args.jsx
    pc,             \* the statement the run is at
    template_path,  \* main's template_path
    text,           \* main's text
    exc,            \* the exception in flight
    exit_code,      \* exit status of the run, -1 while it runs
    stdout,         \* lines printed to standard output by the run
    stderr,         \* lines printed to the error stream by the run
    run,            \* number of the run
    writes,         \* writes to args.jsx in the run
    steps,          \* the checks the run has passed, in order
    hist,           \* content of args.jsx at the start of each run
    codes           \* exit status of each finished run

vars == <<flavour, base, cli_value, files, jsx_kind, jsx_bytes, pc,
          template_path, text, exc, exit_code, stdout, stderr, run, writes,
          steps, hist, codes>>

env == <<flavour, base, cli_value, files>>
out == <<exit_code, stdout, stderr>>

\* ---- inputs ----

\* pieces of a directory name: an ordinary letter, backslash sequences, a
\* newline and the pattern's terminator; a Windows name holds none of \ and \n
DirPieces(flav) ==
    IF flav = "windows" THEN {<<"p">>, TERM}
    ELSE {<<"p">>, <<BSL, "n">>, <<BSL, "d">>, <<BSL, "1">>, <<BSL, BSL>>,
          <<LF>>, TERM}

RECURSIVE Dirs(_, _)
Dirs(flav, n) ==
    IF n = 1 THEN DirPieces(flav)
    ELSE Dirs(flav, n - 1)
             \cup {d \o q : d \in Dirs(flav, n - 1), q \in DirPieces(flav)}

\* chunks of JSX text: other text, a matching line, a line without its
\* terminator, a terminator, line ends
Items ==
    {<<"a">>, <<HEAD, "o">> \o TERM, <<HEAD, "o">>, TERM, <<LF>>, <<CR>>}

RECURSIVE Texts(_)
Texts(n) ==
    IF n = 0 THEN {<<>>}
    ELSE Texts(n - 1) \cup {t \o i : t \in Texts(n - 1), i \in Items}

CliValues == {<<>>, << <<>> >>, << <<"x.psd">> >>, << <<"~", "x.psd">> >>}

FilePaths ==
    {<<"x.psd">>, <<"~", "x.psd">>, <<"home", "x.psd">>,
     Cwd \o <<PSD>>, RepoRoot \o <<PSD>>}

\* every text and directory name, with the template in the working directory
InitRewrite ==
    /\ flavour \in Flavours
    /\ base \in Dirs(flavour, MaxDirPieces)
    /\ cli_value = <<>>
    /\ files = {Cwd \o <<PSD>>}
    /\ jsx_kind = "file"
    /\ jsx_bytes \in Texts(MaxItems)

\* every --template value and every set of existing files
InitResolve ==
    /\ flavour \in Flavours
    /\ base = <<"p">>
    /\ cli_value \in CliValues
    /\ files \in SUBSET FilePaths
    /\ jsx_kind \in {"file", "dir", "missing"}
    /\ jsx_bytes \in (IF jsx_kind = "file"
                      THEN {<<"a">>, <<"a", LF, HEAD, "o">> \o TERM \o <<LF>>}
                      ELSE {<<>>})

Init ==
    /\ InitRewrite \/ InitResolve
    /\ pc = "resolve"
    /\ template_path = <<>>
    /\ text = <<>>
    /\ exc = NoExc
    /\ exit_code = -1
    /\ stdout = <<>>
    /\ stderr = <<>>
    /\ run = 1
    /\ writes = 0
    /\ steps = <<>>
    /\ hist = <<jsx_bytes>>
    /\ codes = <<>>

\* ---- the statements of main and of the __main__ block ----

Raise(type, msg) ==
    /\ exc' = [type |-> type, msg |-> msg]
    /\ pc' = "except"

\* template_path = resolve_template_path(args.template, repo_root)
ResolveStep ==
    /\ pc = "resolve"
    /\ LET cands == Candidates(cli_value, RepoRoot)
           i == FirstFile(cands, files)
       IN  IF i # 0
           THEN /\ template_path' = Resolve(cands[i], flavour, base)
                /\ steps' = Append(steps, "resolved")
                /\ pc' = "check_jsx"
                /\ exc' = exc
           ELSE /\ Raise("FileNotFoundError", NotFoundMsg)
                /\ UNCHANGED <<template_path, steps>>
    /\ UNCHANGED <<env, jsx_kind, jsx_bytes, text, out, run, writes, hist, codes>>

\* if not jsx_path.is_file(): raise FileNotFoundError
CheckJsx ==
    /\ pc = "check_jsx"
    /\ IF JsxMissing(jsx_kind)
       THEN /\ Raise("FileNotFoundError", <<"Could not find JSX file at ", JSX>>)
            /\ steps' = steps
       ELSE /\ steps' = Append(steps, "is_file")
            /\ pc' = "read"
            /\ exc' = exc
    /\ UNCHANGED <<env, jsx_kind, jsx_bytes, template_path, text, out, run,
                   writes, hist, codes>>

\* text = jsx_path.read_text()
ReadStep ==
    /\ pc = "read"
    /\ CASE jsx_kind = "file" ->
                /\ text' = read_text(jsx_bytes)
                /\ pc' = "search"
                /\ exc' = exc
         [] jsx_kind = "dir" ->
                /\ Raise("IsADirectoryError", <<"[Errno 21] Is a directory: ", JSX>>)
                /\ text' = text
         [] OTHER ->
                /\ Raise("FileNotFoundError",
                         <<"[Errno 2] No such file or directory: ", JSX>>)
                /\ text' = text
    /\ UNCHANGED <<env, jsx_kind, jsx_bytes, template_path, out, run, writes,
                   steps, hist, codes>>

\* if not REPLACEMENT_PATTERN.search(text): raise RuntimeError
SearchStep ==
    /\ pc = "search"
    /\ IF PatternFound(text)
       THEN /\ steps' = Append(steps, "matched")
            /\ pc' = "sub"
            /\ exc' = exc
       ELSE /\ Raise("RuntimeError",
                     <<"Could not find templateFile line to update in the JSX file.">>)
            /\ steps' = steps
    /\ UNCHANGED <<env, jsx_kind, jsx_bytes, template_path, text, out, run,
                   writes, hist, codes>>

\* updated = REPLACEMENT_PATTERN.sub(replacement_line, text, count=1)
\* jsx_path.write_text(updated)
RewriteStep ==
    /\ pc = "sub"
    /\ LET repl == replacement_line(template_path, flavour)
           t == ExpandTemplate(repl)
       IN  IF t.err # <<>>
           THEN /\ Raise("re.error", t.err)
                /\ UNCHANGED <<jsx_kind, jsx_bytes, writes, steps>>
           ELSE /\ jsx_bytes' = write_text(Sub(repl, text), flavour)
                /\ jsx_kind' = "file"
                /\ writes' = writes + 1
                /\ steps' = Append(steps, "written")
                /\ pc' = "print"
                /\ exc' = exc
    /\ UNCHANGED <<env, template_path, text, out, run, hist, codes>>

\* print(...); return 0; raise SystemExit(main())
PrintStep ==
    /\ pc = "print"
    /\ stdout' = Append(stdout, <<"Updated template path in ", JSX, " to ">>
                                    \o template_path)
    /\ exit_code' = 0
    /\ codes' = Append(codes, 0)
    /\ pc' = "done"
    /\ UNCHANGED <<env, jsx_kind, jsx_bytes, template_path, text, exc, stderr,
                   run, writes, steps, hist>>

\* except Exception as exc: print(f'Error: {exc}', file=sys.stderr); SystemExit(1)
Except ==
    /\ pc = "except"
    /\ stderr' = Append(stderr, <<"Error: ">> \o exc.msg)
    /\ exit_code' = ErrorExit
    /\ codes' = Append(codes, ErrorExit)
    /\ pc' = "done"
    /\ UNCHANGED <<env, jsx_kind, jsx_bytes, template_path, text, exc, stdout,
                   run, writes, steps, hist>>

\* the utility is invoked again with the same arguments
Rerun ==
    /\ pc = "done"
    /\ run < MaxRuns
    /\ run' = run + 1
    /\ hist' = Append(hist, jsx_bytes)
    /\ pc' = "resolve"
    /\ template_path' = <<>>
    /\ text' = <<>>
    /\ exc' = NoExc
    /\ exit_code' = -1
    /\ stdout' = <<>>
    /\ stderr' = <<>>
    /\ writes' = 0
    /\ steps' = <<>>
    /\ UNCHANGED <<env, jsx_kind, jsx_bytes, codes>>

Next ==
    \/ ResolveStep
    \/ CheckJsx
    \/ ReadStep
    \/ SearchStep
    \/ RewriteStep
    \/ PrintStep
    \/ Except
    \/ Rerun

Spec == Init /\ [][Next]_vars

\* ---- properties ----

Done == pc = "done"
Before == hist[run]          \* content of args.jsx when the run started

CwdCandidate == Cwd \o <<PSD>>
RepoCandidate == RepoRoot \o <<PSD>>
Explicit == expanduser(cli_value[1])

ResolvedTo(p) ==
    /\ steps # <<>>
    /\ steps[1] = "resolved"
    /\ template_path = Resolve(p, flavour, base)

TemplateNotFound ==
    /\ steps = <<>>
    /\ exc = [type |-> "FileNotFoundError", msg |-> NotFoundMsg]

PatternNotFoundMsg ==
    <<"Could not find templateFile line to update in the JSX file.">>

\* one match in the bytes of the file and in the text read from it
OneMatch(c) == CountMatches(c) = 1 /\ CountMatches(read_text(c)) = 1

\* C1: a successful run on a file holding exactly one match leaves the file
\* equal to its former content with the match replaced by
\* var templateFile = new File('P_posix'); and nothing else changed
C1_ExactReplacement ==
    (Done /\ exit_code = 0 /\ OneMatch(Before)) =>
        LET m == Search(Before)
        IN  jsx_bytes = SubSeq(Before, 1, m[1] - 1)
                \o <<HEAD>> \o as_posix(template_path, flavour) \o TERM
                \o SubSeq(Before, m[2] + 1, Len(Before))

\* C2 as stated: the explicit path (if supplied), the working directory and
\* the repository root are tried in this order, the first that is a file
\* is returned, and the not-found error is raised only when none is a file
C2_ThreeCandidates ==
    pc # "resolve" =>
        LET three == (IF Supplied(cli_value) THEN <<Explicit>> ELSE <<>>)
                         \o <<CwdCandidate, RepoCandidate>>
        IN  IF \E i \in 1..Len(three) : three[i] \in files
            THEN \E i \in 1..Len(three) :
                     /\ three[i] \in files
                     /\ \A j \in 1..(i - 1) : three[j] \notin files
                     /\ ResolvedTo(three[i])
            ELSE TemplateNotFound

\* C2 amended: a non-empty --template is the only candidate; without one the
\* working directory and then the repository root are tried; the first
\* candidate that is a file is returned and the not-found error is raised
\* exactly when no candidate of that list is a file
C2_CandidateList ==
    pc # "resolve" =>
        IF Supplied(cli_value)
        THEN IF Explicit \in files THEN ResolvedTo(Explicit) ELSE TemplateNotFound
        ELSE IF CwdCandidate \in files THEN ResolvedTo(CwdCandidate)
        ELSE IF RepoCandidate \in files THEN ResolvedTo(RepoCandidate)
        ELSE TemplateNotFound

C2_Witness ==
    /\ Done
    /\ Supplied(cli_value)
    /\ Explicit \notin files
    /\ CwdCandidate \in files
    /\ TemplateNotFound

\* C3: an explicit --template that is a regular file is the path returned,
\* whatever exists in the working directory or at the repository root
C3_ExplicitWins ==
    (pc # "resolve" /\ Supplied(cli_value) /\ Explicit \in files) =>
        /\ "resolved" \in {steps[i] : i \in 1..Len(steps)}
        /\ template_path = Root(flavour) \o base
                               \o Join(Absolute(Explicit), Sep(flavour))

C3_Witness ==
    /\ pc = "check_jsx"
    /\ Supplied(cli_value)
    /\ {Explicit, CwdCandidate, RepoCandidate} \subseteq files
    /\ template_path = Resolve(Explicit, flavour, base)
    /\ template_path # Resolve(CwdCandidate, flavour, base)

\* C4: without --template and without spirit_hex_grey.psd in the working
\* directory and at the repository root, the run goes no further than the
\* resolution and ends with exit code 1 and a message naming the file
C4_NoTemplate ==
    (~Supplied(cli_value) /\ CwdCandidate \notin files /\ RepoCandidate \notin files) =>
        /\ pc \in {"resolve", "except", "done"}
        /\ Done =>
            /\ exit_code = 1
            /\ Len(stderr) = 1
            /\ stderr[1][1] = "Error: "
            /\ \E i \in 2..Len(stderr[1]) : stderr[1][i] = PSD

C4_Witness ==
    /\ Done
    /\ cli_value = <<>>
    /\ CwdCandidate \notin files
    /\ RepoCandidate \notin files
    /\ jsx_kind = "file"
    /\ Search(jsx_bytes) # NoMatch
    /\ exit_code = 1

\* C5: when the template resolves and the target is a file whose content
\* has no match, the file is not written and the run ends with exit code 1
\* and the pattern-not-found message
C5_NoMatch ==
    (jsx_kind = "file" /\ Search(read_text(Before)) = NoMatch) =>
        /\ writes = 0
        /\ jsx_bytes = Before
        /\ (Done /\ "resolved" \in {steps[i] : i \in 1..Len(steps)}) =>
            /\ exit_code = 1
            /\ stderr = << <<"Error: ">> \o PatternNotFoundMsg >>

C5_Witness ==
    /\ Done
    /\ steps = <<"resolved", "is_file">>
    /\ HEAD \in {Before[i] : i \in 1..Len(Before)}
    /\ Search(read_text(Before)) = NoMatch
    /\ exc.type = "RuntimeError"

\* C6: when the target is not a regular file the run ends with exit code 1
\* and a FileNotFoundError, with or without a template, and nothing is
\* created at the target path
C6_NoTarget ==
    /\ [](jsx_kind # "file" =>
            /\ writes = 0
            /\ Done =>
                /\ exit_code = 1
                /\ exc.type = "FileNotFoundError"
                /\ stderr = << <<"Error: ">> \o exc.msg >>)
    /\ [][jsx_kind # "file" => jsx_kind' = jsx_kind]_vars

C6_Witness ==
    /\ Done
    /\ jsx_kind = "dir"
    /\ steps = <<"resolved">>
    /\ exc = [type |-> "FileNotFoundError",
              msg |-> <<"Could not find JSX file at ", JSX>>]

\* C7: after a successful run on a file holding exactly one match, a second
\* run with the same template succeeds and leaves the content as it was
\* after the first run
C7_Idempotent ==
    (Done /\ run = 2 /\ OneMatch(hist[1]) /\ codes[1] = 0) =>
        /\ exit_code = 0
        /\ jsx_bytes = hist[2]

C9_FirstMatchOnly ==
    (Done /\ CountMatches(Before) >= 2 /\ CountMatches(read_text(Before)) >= 2) =>
        LET m == Search(Before)
            n == Len(Before) - m[2]
        IN  /\ exit_code = 0
            /\ Len(jsx_bytes) >= m[1] - 1 + n
            /\ SubSeq(jsx_bytes, 1, m[1] - 1) = SubSeq(Before, 1, m[1] - 1)
            /\ SubSeq(jsx_bytes, Len(jsx_bytes) - n + 1, Len(jsx_bytes))
                   = SubSeq(Before, m[2] + 1, Len(Before))

\* C10: the target is written at most once in a run, only after the
\* template was resolved, the target found to be a file and the pattern
\* matched, in this order; a run that ends in one of the three errors
\* leaves the target as it was
C10_WriteOrder ==
    /\ writes <= 1
    /\ writes = 1 =>
        /\ steps = <<"resolved", "is_file", "matched", "written">>
        /\ \E p \in files : template_path = Resolve(p, flavour, base)
        /\ Search(read_text(Before)) # NoMatch
    /\ writes = 0 => jsx_bytes = Before
    /\ (Done /\ exc.type \in {"FileNotFoundError", "RuntimeError"}) =>
           writes = 0 /\ jsx_bytes = Before

C10_Witness ==
    /\ Done
    /\ run = 2
    /\ codes[1] = 0
    /\ exc.type = "RuntimeError"
    /\ jsx_bytes = Before
    /\ jsx_bytes # hist[1]

====
